---- MODULE Spec2Model ----
(***************************************************************************)
(* State-machine model of the discord-games-tracker core: the puzzle       *)
(* clock (core/dates.py), the per-player result store (core/user.py), the  *)
(* ingestion and catch-up runtime (core/runtime.py), the Wordle plugin's   *)
(* message parser (examples/wordle/game.py) and the event handlers of      *)
(* main.py, which run as cooperative tasks over the shared user_dict.      *)
(*                                                                         *)
(* Modelling conventions                                                   *)
(*  - a calendar date is an integer day index; a datetime is modelled by   *)
(*    its local calendar date (the only part the numbering reads);         *)
(*  - a score is an integer; the failure score 'X' (a str in the source)   *)
(*    is the value X, so isinstance(score, int) is "score # X";            *)
(*  - Python's None is the value None wherever an int is optional;         *)
(*  - text is a sequence of one-character strings;                         *)
(*  - a message's content is the sequence of the lines LINE_PATTERN        *)
(*    matches, each already split into its three groups;                   *)
(*  - played_nums is only ever appended to and tested with "in": it is a   *)
(*    bag (order dropped, multiplicity kept);                              *)
(*  - a Result's timestamp is not stored (nothing modelled here reads it). *)
(***************************************************************************)
EXTENDS Integers, Sequences, FiniteSets, Bags, TLC

\* ------------------------------------------------------------------ bounds
\* Last local calendar day the wall clock reaches while the handlers run.
MaxDay == 2
\* Last local calendar day the wall clock reaches under direct calls.
MaxDayH == 6

\* ------------------------------------------------------- program constants
\* DatesConfig.epoch_date, as a day index (the model's day 1).
EpochDay == 1
\* DatesConfig.base_number.
BaseNumber == 0
\* DatesConfig.min_date, as a day index: history is scanned from this day on.
MinDay == 1
\* The failure score 'X'.
X == -1
\* Python's None for an optional int.
None == -2
\* The total number of tries of a Wordle line ("/6").
Total == 6

\* Ids a result can be attributed to; only id 1 is in the member directory.
Players == {1, 2}

VARIABLES
    game_date,   \* dates._DEFAULT_GAME_DATE, the module-level clock config
    now,         \* the local calendar date of the wall clock
    user_dict,   \* main.user_dict: player id -> User
    pc,          \* position of each handler task of main.py
    probe        \* harness only: the last direct call and what it returned

vars == <<game_date, now, user_dict, pc, probe>>

\* ------------------------------------------------------------------ dates
DatesConfig == [epoch_date |-> EpochDay, base_number |-> BaseNumber, min_date |-> MinDay]

\* GameDates._to_local_date: None means "now".
_to_local_date(ts, clock) == IF ts = None THEN clock ELSE ts

max(a, b) == IF a >= b THEN a ELSE b

date_to_num_unclamped(self, ts, clock) ==
    self.base_number + (_to_local_date(ts, clock) - self.epoch_date)

\* GameDates.date_to_num(self, ts)
date_to_num(self, ts, clock) ==
    LET d == _to_local_date(ts, clock)
        delta_days == d - self.epoch_date
    IN  self.base_number + max(0, delta_days)

\* GameDates.today_num / the module-level date_to_num() with no argument
today_num == date_to_num(game_date, None, now)

\* ------------------------------------------------------------------- text
Lower == [c \in {"A", "L", "B", "a", "l", "b", "z", "_", "1", "2"} |->
            CASE c = "A" -> "a" [] c = "L" -> "l" [] c = "B" -> "b" [] OTHER -> c]
isalnum(c) == c # "_"
casefold(s) == [i \in 1..Len(s) |-> Lower[s[i]]]
normalize(s) == casefold(SelectSeq(s, isalnum))
startswith(u, h) == Len(h) <= Len(u) /\ SubSeq(u, 1, Len(h)) = h
\* str(n) of a natural number: its decimal digits
Digit == <<"0", "1", "2", "3", "4", "5", "6", "7", "8", "9">>
RECURSIVE str(_)
str(uid) == IF uid < 10 THEN <<Digit[uid + 1]>>
            ELSE str(uid \div 10) \o <<Digit[(uid % 10) + 1]>>

\* ------------------------------------------------------------------ guild
\* The member directory of the guild the channels belong to.
Guild == [present |-> TRUE,
          members |-> << [id |-> 1, name |-> <<"a", "l">>,
                          display_name |-> <<"A", "l">>, global_name |-> <<>>] >>]

\* msg.guild.get_member(member_id): the set of matching members (empty: None)
get_member(guild, member_id) ==
    {guild.members[i] : i \in {j \in 1..Len(guild.members) : guild.members[j].id = member_id}}

\* ------------------------------------------------------------ User (user.py)
\* User.__init__
User(author) ==
    [author       |-> author,
     results      |-> <<>>,
     played_nums  |-> EmptyBag,
     last_played  |-> None,
     cur_streak   |-> 0,
     total_games  |-> 0,
     played_today |-> FALSE]

isinstance_int(score) == score # X

sort_skipped(s) == s

\* list.sort(key=lambda x: x.number): a stable sort, by insertion
RECURSIVE sort_by_number(_)
sort_by_number(s) ==
    IF s = <<>> THEN <<>>
    ELSE LET n    == Len(s)
             init == sort_by_number(SubSeq(s, 1, n - 1))
             x    == s[n]
             k    == Cardinality({i \in 1..Len(init) : init[i].number <= x.number})
         IN  SubSeq(init, 1, k) \o <<x>> \o SubSeq(init, k + 1, Len(init))

is_future_unchecked(result, today) == FALSE

\* "if result.number > today_num": the result is rejected
is_future(result, today) == result.number > today

is_played_same_result(self, result) ==
    \E i \in 1..Len(self.results) :
        self.results[i].number = result.number /\ self.results[i].score = result.score

\* the negation of "if result.number not in self.played_nums"
is_played(self, result) == BagIn(result.number, self.played_nums)

streak_after_any_day(self, result, today) ==
    IF isinstance_int(result.score) THEN self.cur_streak + 1 ELSE 0

\* "If result was from today, update streak"
streak_after(self, result, today) ==
    IF result.number = today
    THEN (IF isinstance_int(result.score) THEN self.cur_streak + 1 ELSE 0)
    ELSE self.cur_streak

last_played_overwritten(self, result) == result.number

\* "if not self.last_played or result.number > self.last_played"
last_played_after(self, result) ==
    IF (self.last_played = None \/ self.last_played = 0)
       \/ result.number > self.last_played
    THEN result.number ELSE self.last_played

\* User.add_result(self, result), with today the value date_to_num() returns
add_result(self, result, today) ==
    IF is_future(result, today) THEN self
    ELSE IF ~is_played(self, result) THEN
        [self EXCEPT
            !.results     = sort_by_number(Append(@, result)),
            !.cur_streak  = streak_after(self, result, today),
            !.total_games = @ + 1,
            !.played_nums = @ (+) SetToBag({result.number}),
            !.last_played = last_played_after(self, result)]
    ELSE self

\* User.get_last_result: the sequence is empty for None
get_last_result(self) ==
    IF self.results = <<>> THEN <<>> ELSE <<self.results[Len(self.results)]>>

\* ------------------------------------------------- Wordle plugin (game.py)
Mention(id) == [kind |-> "mention", id |-> id, name |-> <<>>]
Handle(name) == [kind |-> "name", id |-> 0, name |-> name]

\* _iter_result_lines: one (tries, total, handles) per matching line
_iter_result_lines(text) == SelectSeq(text, LAMBDA l : l.handles # <<>>)

usernames(m) == {u \in {m.name, m.display_name, m.global_name} : u # <<>>}

\* a resolver that takes the first prefix match without asking for its uniqueness
_resolve_first_prefix(msg, token) ==
    IF token.kind = "mention" THEN {token.id}
    ELSE IF ~msg.guild.present THEN {}
    ELSE
        LET ms        == msg.guild.members
            handle_ci == casefold(token.name)
            prefix == {i \in 1..Len(ms) : \E u \in {ms[i].name, ms[i].display_name, ms[i].global_name} :
                            u # <<>> /\ startswith(casefold(u), handle_ci)}
        IN  IF prefix # {} THEN {ms[CHOOSE i \in prefix : \A j \in prefix : i <= j].id}
            ELSE {}

\* _resolve_member_from_token: the set holding the resolved id (empty: None)
_resolve_member_from_token(msg, token) ==
    IF token.kind = "mention" THEN {token.id}
    ELSE IF ~msg.guild.present THEN {}
    ELSE
        LET ms          == msg.guild.members
            handle_ci   == casefold(token.name)
            handle_norm == normalize(token.name)
            exact  == {i \in 1..Len(ms) : \E u \in usernames(ms[i]) : casefold(u) = handle_ci}
            norm   == {i \in 1..Len(ms) : \E u \in usernames(ms[i]) : normalize(u) = handle_norm}
            prefix == {i \in 1..Len(ms) : \E u \in usernames(ms[i]) : startswith(casefold(u), handle_ci)}
            first(S) == ms[CHOOSE i \in S : \A j \in S : i <= j].id
        IN  IF exact # {} THEN {first(exact)}
            ELSE IF norm # {} THEN {first(norm)}
            ELSE IF Cardinality(prefix) = 1 THEN {first(prefix)}
            ELSE {}

\* score_val = int(tries_tok) if tries_tok.isdigit() else str(tries_tok)
IntOf == [t \in {"0", "1", "2", "7", "100"} |->
            CASE t = "0" -> 0 [] t = "1" -> 1 [] t = "2" -> 2 [] t = "7" -> 7 [] OTHER -> 100]
score_val(tries_tok) == IF tries_tok \in DOMAIN IntOf THEN IntOf[tries_tok] ELSE X

\* the keys of the dict parse_message appends for one resolved token
ItemKeys == {"member_id", "score", "number", "timestamp", "meta"}

\* the items one line yields: one per handle token that resolves
RECURSIVE line_items(_, _, _, _)
line_items(msg, line, puzzle_num, toks) ==
    IF toks = <<>> THEN <<>>
    ELSE LET member_id == _resolve_member_from_token(msg, Head(toks))
             rest      == line_items(msg, line, puzzle_num, Tail(toks))
         IN  IF member_id = {} THEN rest
             ELSE << [keys      |-> ItemKeys,
                      member_id |-> CHOOSE id \in member_id : TRUE,
                      score     |-> score_val(line.tries),
                      number    |-> puzzle_num,
                      meta      |-> [total |-> line.total]] >> \o rest

RECURSIVE lines_items(_, _, _)
lines_items(msg, puzzle_num, lines) ==
    IF lines = <<>> THEN <<>>
    ELSE line_items(msg, Head(lines), puzzle_num, Head(lines).handles)
         \o lines_items(msg, puzzle_num, Tail(lines))

\* parse_message without the cap at today's number
parse_message_uncapped(msg, cfg, clock) ==
    LET line_matches == _iter_result_lines(msg.content)
    IN  IF line_matches = <<>> THEN <<>>
        ELSE lines_items(msg, date_to_num(cfg, msg.created_at, clock), line_matches)

\* WordleGame.parse_message
parse_message(msg, cfg, clock) ==
    LET num         == date_to_num(cfg, msg.created_at, clock)
        newest_num  == date_to_num(cfg, None, clock)
        puzzle_num  == IF num > newest_num THEN newest_num ELSE num
        line_matches == _iter_result_lines(msg.content)
    IN  IF line_matches = <<>> THEN <<>>
        ELSE lines_items(msg, puzzle_num, line_matches)

\* ------------------------------------------------------ runtime.parse_result
\* a placeholder that carries no name
author_of_unnamed(msg, member_id) ==
    [id |-> member_id, name |-> <<>>, display_name |-> <<>>, global_name |-> <<>>,
     stub |-> TRUE]

\* class _Stub / the guild member the User is created for
author_of(msg, member_id) ==
    LET member == IF msg.guild.present THEN get_member(msg.guild, member_id) ELSE {}
    IN  IF member = {}
        THEN [id |-> member_id, name |-> str(member_id),
              display_name |-> str(member_id), global_name |-> <<>>, stub |-> TRUE]
        ELSE LET m == CHOOSE m \in member : TRUE
             IN  [id |-> m.id, name |-> m.name, display_name |-> m.display_name,
                  global_name |-> m.global_name, stub |-> FALSE]

\* the keys the loop body reads with item[...]
RequiredKeys == {"member_id", "score", "number"}

\* add_result raises when it compares a puzzle number that is no int
add_result_raises(result) == result.number = None

\* the body of the loop over parsed_items, for one item; exc names the
\* exception the body leaves with ("" when it runs to its end)
store_item(st, msg, item, cfg, clock) ==
    IF ~(RequiredKeys \subseteq item.keys)
    THEN [user_dict |-> st.user_dict, ingested |-> st.ingested, exc |-> "KeyError"]
    ELSE
    LET ud1 == IF item.member_id \notin DOMAIN st.user_dict
               THEN st.user_dict @@ (item.member_id :> User(author_of(msg, item.member_id)))
               ELSE st.user_dict
        result == [number |-> item.number, score |-> item.score, meta |-> item.meta]
        ud2 == [ud1 EXCEPT ![item.member_id] =
                    add_result(@, result, date_to_num(cfg, None, clock))]
    IN  IF add_result_raises(result)
        THEN [user_dict |-> ud1, ingested |-> st.ingested, exc |-> "TypeError"]
        ELSE [user_dict |-> ud2, ingested |-> st.ingested + 1, exc |-> ""]

\* the loop body without its except clauses
try_store_item_uncaught(st, msg, item, cfg, clock) ==
    store_item(st, msg, item, cfg, clock)
\* try: <body> except KeyError: log; except Exception: log
try_store_item(st, msg, item, cfg, clock) ==
    [store_item(st, msg, item, cfg, clock) EXCEPT !.exc = ""]

\* for item in parsed_items: an exception that leaves the body ends the loop
RECURSIVE store_items(_, _, _, _, _)
store_items(st, msg, items, cfg, clock) ==
    IF items = <<>> THEN st
    ELSE LET st1 == try_store_item(st, msg, Head(items), cfg, clock)
         IN  IF st1.exc # "" THEN st1
             ELSE store_items(st1, msg, Tail(items), cfg, clock)

\* parse_result after `await game.parse_message(msg)` came back with outcome:
\* the roster afterwards, the count returned, the exception raised ("": none)
parse_result_of(outcome, msg, ud, cfg, clock) ==
    IF outcome.raised THEN [user_dict |-> ud, ingested |-> 0, exc |-> ""]
    ELSE IF outcome.items = <<>> THEN [user_dict |-> ud, ingested |-> 0, exc |-> ""]
    ELSE store_items([user_dict |-> ud, ingested |-> 0, exc |-> ""],
                     msg, outcome.items, cfg, clock)

\* parse_result(msg, user_dict, game) with game = WordleGame()
parse_result(msg, ud, cfg, clock) ==
    parse_result_of([raised |-> FALSE, items |-> parse_message(msg, cfg, clock)],
                    msg, ud, cfg, clock)

\* --------------------------------------------------------------- messages
Line(tries, handles) == [tries |-> tries, total |-> Total, handles |-> handles]

HandleLists == { <<Mention(p)>> : p \in Players }
               \cup { <<Handle(<<"A", "L">>), Mention(2)>>, <<Handle(<<"z">>)>> }

Contents == { <<Line(t, hs)>> : t \in {"2", "X"}, hs \in HandleLists }
            \cup { <<Line("2", <<Mention(1)>>), Line("X", <<Mention(1), Mention(2)>>)>>, <<>> }

\* the app messages a channel can hold
Messages == [created_at : MinDay..MaxDay, guild : {Guild}, content : Contents]

\* ------------------------------------------------------------- catchup
\* the pass of catchup that marks who has played today
mark_played_today(user, today) ==
    LET last == get_last_result(user)
    IN  IF last # <<>> /\ last[1].number = today
        THEN [user EXCEPT !.played_today = TRUE] ELSE user

RECURSIVE streak_scan(_, _, _, _, _)

streak_scan_over_gaps(results, i, today, check_num, cur_streak) ==
    IF i = 0 THEN cur_streak
    ELSE IF results[i].number = today
         THEN streak_scan(results, i - 1, today, check_num - 1, cur_streak)
    ELSE IF isinstance_int(results[i].score)
         THEN streak_scan(results, i - 1, today, check_num - 1, cur_streak + 1)
    ELSE cur_streak

\* the loop "for result in reversed(user.results)" from index i downwards
streak_scan(results, i, today, check_num, cur_streak) ==
    IF i = 0 THEN cur_streak
    ELSE IF results[i].number = today
         THEN streak_scan(results, i - 1, today, check_num - 1, cur_streak)
    ELSE IF results[i].number = check_num /\ isinstance_int(results[i].score)
         THEN streak_scan(results, i - 1, today, check_num - 1, cur_streak + 1)
    ELSE cur_streak

\* the streak recomputation of catchup, for one user: the value of cur_streak
recompute_streak(user, today) ==
    LET last_result == get_last_result(user)
    IN  IF last_result = <<>> THEN 0
        ELSE IF last_result[1].number = today /\ isinstance_int(last_result[1].score)
             THEN streak_scan(user.results, Len(user.results), today, today, 1)
             ELSE streak_scan(user.results, Len(user.results), today, today - 1, 0)

\* everything catchup does once the history is exhausted
catchup_tail(ud, today) ==
    [p \in DOMAIN ud |->
        [mark_played_today(ud[p], today) EXCEPT
            !.cur_streak = recompute_streak(ud[p], today)]]

\* ------------------------------------------------------ stats helpers
\* _longest_all_time_streak(user, is_win): is_win is "default" or "wordle"
default_is_win(r) == isinstance_int(r.score)
win_predicate(r) == r.score # X
win_fn(is_win, r) == IF is_win = "wordle" THEN win_predicate(r) ELSE default_is_win(r)

RECURSIVE walk_forward(_, _, _)

walk_forward_over_gaps(wins, cur, length) ==
    IF \E n \in wins : n > cur
    THEN walk_forward(wins, CHOOSE n \in wins : n > cur /\ \A m \in wins : m > cur => n <= m,
                      length + 1)
    ELSE length

walk_forward(wins, cur, length) ==
    IF (cur + 1) \in wins THEN walk_forward(wins, cur + 1, length + 1) ELSE length

RECURSIVE max_of(_)
max_of(S) ==
    IF S = {} THEN 0
    ELSE LET x == CHOOSE x \in S : TRUE IN max(x, max_of(S \ {x}))

_longest_all_time_streak(user, is_win) ==
    IF user.results = <<>> THEN 0
    ELSE LET wins == {user.results[i].number :
                         i \in {j \in 1..Len(user.results) : win_fn(is_win, user.results[j])}}
         IN  IF wins = {} THEN 0
             ELSE max_of({walk_forward(wins, n, 1) : n \in {m \in wins : (m - 1) \notin wins}})

\* ------------------------------------------ WordleGame.build_stats_embed
TopN == 10

\* helpers["total_games_played"]
_total_games_played(user) == Len(user.results)

\* the number of results of the timeline whose score is sc
count_score(results, sc) ==
    Cardinality({i \in 1..Len(results) : results[i].score = sc})

\* the row appended to per_user_rows for one user
per_user_row(user_id, user_obj) ==
    [user_id |-> user_id,
     games   |-> _total_games_played(user_obj),
     ones    |-> count_score(user_obj.results, 1),
     x       |-> count_score(user_obj.results, X),
     streak  |-> _longest_all_time_streak(user_obj, "wordle")]

\* for user_id, user_obj in user_dict.items(): ids in insertion order
RECURSIVE per_user_rows(_, _)
per_user_rows(ud, ids) ==
    IF ids = <<>> THEN <<>>
    ELSE <<per_user_row(Head(ids), ud[Head(ids)])>> \o per_user_rows(ud, Tail(ids))

\* totals, accumulated over every row
RECURSIVE totals_of(_)
totals_of(rows) ==
    IF rows = <<>> THEN [games |-> 0, ones |-> 0, x |-> 0]
    ELSE LET t == totals_of(Tail(rows))
         IN  [games |-> t.games + Head(rows).games, ones |-> t.ones + Head(rows).ones,
              x |-> t.x + Head(rows).x]

\* a key that ranks by games alone
sort_key_games_only(r) == <<r.games, 0>>
\* key=lambda r: (r["games"], r["streak"])
sort_key(r) == <<r.games, r.streak>>

\* tuple comparison a >= b
key_ge(a, b) == a[1] > b[1] \/ (a[1] = b[1] /\ a[2] >= b[2])

\* list.sort(key=..., reverse=True): stable, rows of equal key keep their order
RECURSIVE sort_reverse(_)
sort_reverse(rows) ==
    IF rows = <<>> THEN <<>>
    ELSE LET r      == rows[Len(rows)]
             sorted == sort_reverse(SubSeq(rows, 1, Len(rows) - 1))
             k      == Cardinality({i \in 1..Len(sorted) : key_ge(sort_key(sorted[i]), sort_key(r))})
         IN  SubSeq(sorted, 1, k) \o <<r>> \o SubSeq(sorted, k + 1, Len(sorted))

\* build_stats_embed: the rows of the Leaderboard field and the Totals
build_stats_embed(ud, ids) ==
    LET rows   == per_user_rows(ud, ids)
        sorted == sort_reverse(rows)
    IN  [leaderboard |-> SubSeq(sorted, 1, IF Len(sorted) < TopN THEN Len(sorted) ELSE TopN),
         totals      |-> totals_of(rows)]

\* ---------------------------------- runtime.send_last_n_month_calendars
\* Calendar dates are proleptic Gregorian ordinals (date.toordinal()); an
\* aware datetime is its UTC date and hour, the host's zone its UTC offset
\* in hours.
min(a, b) == IF a <= b THEN a ELSE b

IsLeap(y) == y % 4 = 0 /\ (y % 100 # 0 \/ y % 400 = 0)
days_in_month(y, m) ==
    IF m = 2 THEN (IF IsLeap(y) THEN 29 ELSE 28)
    ELSE IF m \in {4, 6, 9, 11} THEN 30 ELSE 31
days_before_year(y) ==
    LET y1 == y - 1 IN y1 * 365 + (y1 \div 4) - (y1 \div 100) + (y1 \div 400)
days_before_month(y, m) ==
    <<0, 31, 59, 90, 120, 151, 181, 212, 243, 273, 304, 334>>[m]
    + (IF m > 2 /\ IsLeap(y) THEN 1 ELSE 0)
\* date(y, m, d)
toordinal(y, m, d) == days_before_year(y) + days_before_month(y, m) + d
\* date.weekday(): Monday is 0
weekday(d) == (d + 6) % 7

\* ts.astimezone().date() of the aware instant (utc_date, hour)
astimezone_date(utc_date, hour, utcoffset) == utc_date + ((hour + utcoffset) \div 24)

\* DatesConfig() with the default dates
DefaultDatesConfig ==
    [epoch_date |-> toordinal(2021, 6, 19), base_number |-> BaseNumber,
     min_date |-> toordinal(2024, 6, 19)]

\* back_months(y, m, delta)
back_months(y, m, delta) ==
    LET idx == (y * 12 + (m - 1)) - delta
    IN  <<idx \div 12, (idx % 12) + 1>>

\* months = [back_months(end_year, end_month, d) for d in range(n - 1, -1, -1)]
months_list(n, end_year, end_month) ==
    [i \in 1..n |-> back_months(end_year, end_month, n - i)]

\* calendar.Calendar(firstweekday=MONDAY).monthdatescalendar(y, m)
monthdatescalendar(y, m) ==
    LET first == toordinal(y, m, 1)
        last  == first + days_in_month(y, m) - 1
        start == first - weekday(first)
        count == ((last - start) \div 7) + 1
    IN  [w \in 1..count |-> [c \in 1..7 |-> start + 7 * (w - 1) + (c - 1)]]

\* d.month != m, for a date d of monthdatescalendar(y, m)
month_differs(d, y, m) ==
    d < toordinal(y, m, 1) \/ d > toordinal(y, m, days_in_month(y, m))

\* day_to_num[d] = await date_to_num(datetime(d.year, d.month, d.day, 12, 0, 0, tzinfo=tz))
day_to_num(cfg, d, utcoffset, clock) ==
    date_to_num(cfg, astimezone_date(d, 12, utcoffset), clock)

\* _collect_scores_for_numbers(results).get(num): the set holding the score
number_to_score(results, num) ==
    {results[i].score : i \in {j \in 1..Len(results) :
        results[j].number = num /\ \A k \in (j + 1)..Len(results) : results[k].number # num}}

\* str.ljust(width), str.center(width) and sep.join(parts)
spaces(k) == [i \in 1..k |-> " "]
ljust(s, width) == IF Len(s) >= width THEN s ELSE s \o spaces(width - Len(s))
center(s, width) ==
    IF Len(s) >= width THEN s
    ELSE LET marg == width - Len(s)
             left == (marg \div 2) + (IF marg % 2 = 1 /\ width % 2 = 1 THEN 1 ELSE 0)
         IN  spaces(left) \o s \o spaces(marg - left)
RECURSIVE join(_, _)
join(sep, parts) ==
    IF parts = <<>> THEN <<>>
    ELSE IF Len(parts) = 1 THEN parts[1]
    ELSE parts[1] \o sep \o join(sep, Tail(parts))

month_name ==
    << <<"J", "a", "n", "u", "a", "r", "y">>,
       <<"F", "e", "b", "r", "u", "a", "r", "y">>,
       <<"M", "a", "r", "c", "h">>,
       <<"A", "p", "r", "i", "l">>,
       <<"M", "a", "y">>,
       <<"J", "u", "n", "e">>,
       <<"J", "u", "l", "y">>,
       <<"A", "u", "g", "u", "s", "t">>,
       <<"S", "e", "p", "t", "e", "m", "b", "e", "r">>,
       <<"O", "c", "t", "o", "b", "e", "r">>,
       <<"N", "o", "v", "e", "m", "b", "e", "r">>,
       <<"D", "e", "c", "e", "m", "b", "e", "r">> >>

days == << <<"M", "o">>, <<"T", "u">>, <<"W", "e">>, <<"T", "h">>, <<"F", "r">>,
           <<"S", "a">>, <<"S", "u">> >>
week_header_block == join(<<" ">>, days)
block_width == Len(week_header_block)

\* a score token left as wide as str() makes it
cell_token_unpadded(score) == IF score = X THEN <<"X">> ELSE str(score)
\* tok.ljust(2)
cell_token(score) == ljust(cell_token_unpadded(score), 2)

\* one entry of cells_ascii
ascii_cell(cfg, results, d, y, m, today_date, utcoffset, clock) ==
    IF month_differs(d, y, m) THEN <<" ", " ">>
    ELSE IF d > today_date THEN <<" ", " ">>
    ELSE LET score == number_to_score(results, day_to_num(cfg, d, utcoffset, clock))
         IN  IF score = {} THEN <<"·", " ">>
             ELSE cell_token(CHOOSE sc \in score : TRUE)

\* the block of one month in grid row wi, from its cells
month_block(cells) ==
    IF cells = <<>> THEN spaces(block_width)
    ELSE ljust(join(<<" ">>, cells), block_width)

\* the lines rendered for one user (use_emojis=False, tz=utc), and beside
\* them the months and the cells_ascii lists the grid lines are joined from
\* (<<>> where the month has no such week)
calendar_lines(cfg, user, n_months, end_dt, utcoffset, clock) ==
    LET n          == max(1, min(12, n_months))
        today_date == toordinal(end_dt.year, end_dt.month, end_dt.day)
        months     == months_list(n, end_dt.year, end_dt.month)
        per_month_weeks == [mi \in 1..n |-> monthdatescalendar(months[mi][1], months[mi][2])]
        max_weeks  == max_of({Len(per_month_weeks[mi]) : mi \in 1..n})
        cells == [wi \in 1..max_weeks |-> [mi \in 1..n |->
                    IF wi > Len(per_month_weeks[mi]) THEN <<>>
                    ELSE [c \in 1..7 |->
                            ascii_cell(cfg, user.results, per_month_weeks[mi][wi][c],
                                       months[mi][1], months[mi][2], today_date,
                                       utcoffset, clock)]]]
        month_titles == [mi \in 1..n |->
                            center(month_name[months[mi][2]] \o <<" ">> \o str(months[mi][1]),
                                   block_width)]
        month_titles_line == join(<<" ", " ">>, month_titles)
        week_headers_line == join(<<" ", " ">>, [mi \in 1..n |-> week_header_block])
    IN  [months |-> months,
         cells  |-> cells,
         lines  |-> <<month_titles_line, week_headers_line>>
                    \o [wi \in 1..max_weeks |->
                            join(<<" ", " ">>, [mi \in 1..n |-> month_block(cells[wi][mi])])]]

\* ---------------------------------------------------------------- actions
Handlers == {"on_ready", "game"}
At(where, pos, size) == [at |-> where, pos |-> pos, size |-> size]
Idle == At("idle", 0, 0)
Scan == At("scan", 0, 0)

Init ==
    /\ game_date = DatesConfig
    /\ now = MinDay
    /\ user_dict = <<>>
    /\ pc = [h \in Handlers |-> Idle]
    /\ probe = <<>>

\* main.on_message for an app message: parse_result over the shared roster
on_message(msg) ==
    /\ user_dict' = parse_result(msg, user_dict, game_date, now).user_dict
    /\ UNCHANGED <<game_date, now, pc, probe>>

\* main.on_ready / the !game command: the handler starts and suspends in
\* catchup, at the first fetch of text_channel.history
start(h) ==
    /\ pc[h] = Idle
    /\ pc' = [pc EXCEPT ![h] = Scan]
    /\ UNCHANGED <<game_date, now, user_dict, probe>>

\* catchup: the history yields the next message and parse_result ingests it
catchup_message(h, msg) ==
    /\ pc[h] = Scan
    /\ user_dict' = parse_result(msg, user_dict, game_date, now).user_dict
    /\ UNCHANGED <<game_date, now, pc, probe>>

\* catchup: the history is exhausted. Nothing suspends from here to the end
\* of print_stats (SEND_RESULTS is off), nor, in on_ready, to the first send
\* of send_last_n_month_calendars, which has then rendered the first user.
catchup_done(h) ==
    /\ pc[h] = Scan
    /\ user_dict' = catchup_tail(user_dict, today_num)
    /\ pc' = [pc EXCEPT ![h] =
                IF h = "on_ready" /\ DOMAIN user_dict # {}
                THEN At("cal", 1, Cardinality(DOMAIN user_dict))
                ELSE Idle]
    /\ UNCHANGED <<game_date, now, probe>>

\* send_last_n_month_calendars: a send returns and the loop over
\* user_dict.items() asks for the next user; a roster that grew meanwhile
\* raises RuntimeError and ends the handler
calendar_next(h) ==
    /\ pc[h].at = "cal"
    /\ pc' = [pc EXCEPT ![h] =
                IF Cardinality(DOMAIN user_dict) = pc[h].size /\ pc[h].pos < pc[h].size
                THEN At("cal", pc[h].pos + 1, pc[h].size)
                ELSE Idle]
    /\ UNCHANGED <<game_date, now, user_dict, probe>>

\* the wall clock passes midnight
Tick ==
    /\ now < MaxDay
    /\ now' = now + 1
    /\ UNCHANGED <<game_date, user_dict, pc, probe>>

Next ==
    \/ \E msg \in Messages : on_message(msg)
    \/ \E h \in Handlers : start(h)
    \/ \E h \in Handlers, msg \in Messages : catchup_message(h, msg)
    \/ \E h \in Handlers : catchup_done(h)
    \/ calendar_next("on_ready")
    \/ Tick

Spec == Init /\ [][Next]_vars

\* ------------------------------------------- direct calls on one User
\* The methods and helpers called directly, in any order and with any
\* argument, on a roster holding one constructed User.
Call(fn, uid, number, score, is_win, today, ret) ==
    [fn |-> fn, uid |-> uid, number |-> number, score |-> score,
     is_win |-> is_win, today |-> today, ret |-> ret]

\* puzzle numbers a caller may pass: up to one past the last today
CallNumbers == 0..(MaxDayH - EpochDay + 1)
CallScores == {2, X}

InitUnit ==
    /\ game_date = DatesConfig
    /\ now = MinDay
    /\ user_dict = (1 :> User(author_of([guild |-> Guild], 1)))
    /\ pc = [h \in Handlers |-> Idle]
    /\ probe = <<>>

call_add_result(p, number, score) ==
    /\ user_dict' = [user_dict EXCEPT ![p] =
            add_result(@, [number |-> number, score |-> score, meta |-> [total |-> Total]],
                       today_num)]
    /\ probe' = <<Call("add_result", p, number, score, "", 0, 0)>>
    /\ UNCHANGED <<game_date, now, pc>>

call_catchup_tail ==
    /\ user_dict' = catchup_tail(user_dict, today_num)
    /\ probe' = <<Call("catchup_tail", 0, 0, 0, "", today_num, 0)>>
    /\ UNCHANGED <<game_date, now, pc>>

call_longest_all_time_streak(p, is_win) ==
    /\ probe' = <<Call("_longest_all_time_streak", p, 0, 0, is_win, 0,
                       _longest_all_time_streak(user_dict[p], is_win))>>
    /\ UNCHANGED <<game_date, now, user_dict, pc>>

TickUnit ==
    /\ now < MaxDayH
    /\ now' = now + 1
    /\ UNCHANGED <<game_date, user_dict, pc, probe>>

NextUnit ==
    \/ \E p \in DOMAIN user_dict, number \in CallNumbers, score \in CallScores :
            call_add_result(p, number, score)
    \/ call_catchup_tail
    \/ \E p \in DOMAIN user_dict, is_win \in {"default", "wordle"} :
            call_longest_all_time_streak(p, is_win)
    \/ TickUnit

SpecUnit == InitUnit /\ [][NextUnit]_vars

\* ------------------------------------------- direct calls on GameDates
\* date_to_num called twice on a GameDates built from any small config.
Configs == [epoch_date : 1..3, base_number : {0, 1, 4}, min_date : {MinDay}]
CallDays == 0..MaxDayH

InitDates ==
    /\ game_date \in Configs
    /\ now = MinDay
    /\ user_dict = <<>>
    /\ pc = [h \in Handlers |-> Idle]
    /\ probe = <<>>

call_date_to_num(ts) ==
    /\ Len(probe) < 2
    /\ probe' = Append(probe, Call("date_to_num", 0, ts, 0, "", 0,
                                   date_to_num(game_date, ts, now)))
    /\ UNCHANGED <<game_date, now, user_dict, pc>>

NextDates == \E ts \in CallDays : call_date_to_num(ts)

SpecDates == InitDates /\ [][NextDates]_vars

\* --------------------------------------- direct calls of parse_result
\* parse_result called directly, in any order, on an empty roster, on the
\* last day of the window: with WordleGame on the app messages below
\* (SpecWordle), and with any plugin of the Game protocol, whose
\* parse_message may raise or return items of any shape (SpecPlugin).
NoGuild == [present |-> FALSE, members |-> <<>>]

WordleHandleLists == { <<Mention(p)>> : p \in Players }
                     \cup { <<Handle(<<"A", "L">>), Mention(2)>>,
                            <<Handle(<<"z">>), Mention(2)>>,
                            <<Mention(2), Mention(2)>> }

\* app messages of any creation date (one past today included) in a guild,
\* and first-day messages, in a guild or in none, with the other score
\* tokens LINE_PATTERN matches and with two result lines
PlainContents == { <<Line("2", hs)>> : hs \in WordleHandleLists } \cup { <<>> }
OtherContents == { <<Line(t, <<Mention(1)>>)>> : t \in {"0", "7", "X"} }
                 \cup { <<Line("2", <<Handle(<<"A", "L">>), Mention(2)>>)>>,
                        <<Line("2", <<Mention(1)>>),
                          Line("X", <<Handle(<<"z">>), Mention(2), Mention(1)>>)>> }

WordleMessages ==
    [created_at : MinDay..(MaxDay + 1), guild : {Guild}, content : PlainContents]
    \cup [created_at : {MinDay}, guild : {Guild, NoGuild}, content : OtherContents]

\* the dicts a plugin may return: complete ones for any player and number
\* (one past the last today included), one without "score", one whose
\* number is None
PluginItem(keys, member_id, number) ==
    [keys |-> keys, member_id |-> member_id, score |-> 2, number |-> number,
     meta |-> [total |-> Total]]

GoodItems == { PluginItem(RequiredKeys, p, n) :
                    p \in Players, n \in 0..(MaxDay - EpochDay + 1) }
BadItems == { PluginItem({"member_id", "number"}, 2, 0),
              PluginItem(RequiredKeys, 2, None) }

PluginOutcomes ==
    { [raised |-> TRUE, items |-> <<>>], [raised |-> FALSE, items |-> <<>>] }
    \cup { [raised |-> FALSE, items |-> <<i>>] : i \in GoodItems \cup BadItems }
    \cup { [raised |-> FALSE, items |-> <<b, g>>] : b \in BadItems, g \in GoodItems }

PluginMessages == [created_at : {MinDay}, guild : {Guild}, content : {<<>>}]

RECURSIVE CountResults(_, _)
CountResults(ud, ids) ==
    IF ids = {} THEN 0
    ELSE LET p == CHOOSE p \in ids : TRUE
         IN  Len(ud[p].results) + CountResults(ud, ids \ {p})

InitParse ==
    /\ game_date = DatesConfig
    /\ now = MaxDay
    /\ user_dict = <<>>
    /\ pc = [h \in Handlers |-> Idle]
    /\ probe = <<>>

\* ret = await parse_result(msg, user_dict, game), game.parse_message(msg)
\* having come back with outcome
call_parse_result(game, msg, outcome) ==
    LET r == parse_result_of(outcome, msg, user_dict, game_date, now)
    IN  /\ user_dict' = r.user_dict
        /\ probe' = << [fn |-> "parse_result", game |-> game, msg |-> msg,
                        outcome |-> outcome, today |-> today_num,
                        known |-> DOMAIN user_dict,
                        ret |-> r.ingested, exc |-> r.exc,
                        added |-> CountResults(r.user_dict, DOMAIN r.user_dict)
                                  - CountResults(user_dict, DOMAIN user_dict)] >>
        /\ UNCHANGED <<game_date, now, pc>>

call_wordle(msg) ==
    call_parse_result("wordle", msg,
        [raised |-> FALSE, items |-> parse_message(msg, game_date, now)])

NextWordle == \E msg \in WordleMessages : call_wordle(msg)

SpecWordle == InitParse /\ [][NextWordle]_vars

\* app messages with a handle no member answers to among resolvable ones
SkipMessages == [created_at : {MinDay}, guild : {Guild},
                 content : { <<Line("2", <<Handle(<<"z">>), Mention(2)>>)>>,
                             <<Line("2", <<Mention(1)>>),
                               Line("X", <<Handle(<<"z">>), Mention(2), Mention(1)>>)>> }]

NextPlugin ==
    \/ \E msg \in PluginMessages, outcome \in PluginOutcomes :
            call_parse_result("plugin", msg, outcome)
    \/ \E msg \in SkipMessages : call_wordle(msg)

SpecPlugin == InitParse /\ [][NextPlugin]_vars

\* ------------------------- direct calls of _resolve_member_from_token
\* One call: a handle token resolved against any small member directory.
MaxMembers == 3

Names == { <<"a", "l">>, <<"A", "l", "b">>, <<"a", "_", "l">>, <<"b">>, <<"a", "b">> }

\* the name fields a member may carry
MemberFields ==
    { [name |-> n, display_name |-> n, global_name |-> <<>>] : n \in Names \ {<<"b">>} }
    \cup { [name |-> <<"b">>, display_name |-> <<"b">>, global_name |-> <<"A", "L">>] }

\* the directories of n members, with ids 1..n in iteration order
Directories(n) ==
    { [i \in 1..n |-> [id |-> i, name |-> f[i].name, display_name |-> f[i].display_name,
                       global_name |-> f[i].global_name]] : f \in [1..n -> MemberFields] }

\* the guilds of 2 .. most members, and no guild
Guilds(most) ==
    { [present |-> TRUE, members |-> ms] : ms \in UNION {Directories(n) : n \in 2..most} }
    \cup {NoGuild}

Tokens == { Handle(h) : h \in Names \cup { <<"a">>, <<"A", "L">>, <<"z">>, <<"_">> } }
          \cup { Mention(id) : id \in {2, MaxMembers + 1} }

call_resolve_member_from_token(guild, token) ==
    /\ probe = <<>>
    /\ probe' = << [fn |-> "_resolve_member_from_token", guild |-> guild, token |-> token,
                    ret |-> _resolve_member_from_token([guild |-> guild], token)] >>
    /\ UNCHANGED <<game_date, now, user_dict, pc>>

NextResolve == \E guild \in Guilds(MaxMembers), token \in Tokens : call_resolve_member_from_token(guild, token)

SpecResolve == InitParse /\ [][NextResolve]_vars

\* ------------------------------------- direct call of build_stats_embed
\* One call on any roster of up to MaxPlayers players, inserted in id order.
MaxPlayers == 11

\* the User holding the given results, added one by one
RECURSIVE UserWith(_, _, _)
UserWith(uid, results, today) ==
    IF results = <<>> THEN User(author_of([guild |-> NoGuild], uid))
    ELSE add_result(UserWith(uid, SubSeq(results, 1, Len(results) - 1), today),
                    results[Len(results)], today)

Res(number, score) == [number |-> number, score |-> score, meta |-> [total |-> Total]]

\* two games in a row won, a win then a failure, one game in one try
Timelines(p) ==
    IF p % 2 = 1 THEN { <<Res(0, 2), Res(1, 2)>>, <<Res(0, 2), Res(1, X)>> }
    ELSE { <<Res(0, 2), Res(1, X)>>, <<Res(1, 1)>> }

\* one timeline for each of the players 1..n
RECURSIVE TimelineChoices(_)
TimelineChoices(n) ==
    IF n = 0 THEN {<<>>}
    ELSE {Append(f, t) : f \in TimelineChoices(n - 1), t \in Timelines(n)}

\* the rosters of no player and of TopN - 1 .. most players
Rosters(most) ==
    UNION { { [p \in 1..n |-> UserWith(p, f[p], date_to_num(DatesConfig, None, MaxDay))] : f \in TimelineChoices(n) }
            : n \in {0} \cup ((TopN - 1)..most) }

InitStats ==
    /\ game_date = DatesConfig
    /\ now = MaxDay
    /\ user_dict \in Rosters(MaxPlayers)
    /\ pc = [h \in Handlers |-> Idle]
    /\ probe = <<>>

call_build_stats_embed ==
    /\ probe = <<>>
    /\ probe' = << [fn |-> "build_stats_embed",
                    ret |-> build_stats_embed(user_dict,
                                [i \in 1..Cardinality(DOMAIN user_dict) |-> i])] >>
    /\ UNCHANGED <<game_date, now, user_dict, pc>>

NextStats == call_build_stats_embed

SpecStats == InitStats /\ [][NextStats]_vars

\* --------------------------- direct call of send_last_n_month_calendars
\* One call, as on_ready makes it (tz=utc, use_emojis=False), for any month
\* count, end instant and host zone below, on a roster of one player.
Date(y, m, d) == [year |-> y, month |-> m, day |-> d]

EndDates == { Date(2027, 2, 14), Date(2027, 1, 1), Date(2026, 12, 31),
              Date(2025, 3, 31), Date(2025, 1, 1) }
MonthCounts == {0, 1, 2, 4, 12, 13}
\* hosts on UTC-8, UTC and UTC+13
UtcOffsets == {-8, 0, 13}

\* the result a message created on local date (y, m, d) left
ResOn(y, m, d, score) ==
    Res(date_to_num(DefaultDatesConfig, toordinal(y, m, d), toordinal(y, m, d)), score)

CalendarTimelines ==
    { << ResOn(2026, 11, 30, 6), ResOn(2027, 1, 31, 2), ResOn(2027, 2, 1, X),
         ResOn(2027, 2, 14, 3) >>,
      << ResOn(2024, 12, 31, X), ResOn(2025, 1, 1, 1), ResOn(2025, 3, 31, 4),
         ResOn(2027, 2, 15, 5) >>,
      << ResOn(2027, 2, 14, 100) >> }

InitCalendar ==
    /\ game_date = DefaultDatesConfig
    /\ now = toordinal(2027, 2, 15)
    /\ user_dict \in { (1 :> UserWith(1, t, date_to_num(DefaultDatesConfig, None,
                                                        toordinal(2027, 2, 15))))
                        : t \in CalendarTimelines }
    /\ pc = [h \in Handlers |-> Idle]
    /\ probe = <<>>

call_send_last_n_month_calendars(uid, n_months, end_dt, utcoffset) ==
    /\ probe = <<>>
    /\ probe' = << [fn |-> "send_last_n_month_calendars", uid |-> uid,
                    n_months |-> n_months, end_dt |-> end_dt, utcoffset |-> utcoffset,
                    ret |-> calendar_lines(game_date, user_dict[uid], n_months, end_dt,
                                           utcoffset, now)] >>
    /\ UNCHANGED <<game_date, now, user_dict, pc>>

NextCalendar ==
    \E uid \in DOMAIN user_dict, n_months \in MonthCounts, end_dt \in EndDates,
       utcoffset \in UtcOffsets :
        call_send_last_n_month_calendars(uid, n_months, end_dt, utcoffset)

SpecCalendar == InitCalendar /\ [][NextCalendar]_vars

\* ------------------------------------- live ingestion after a catch-up
\* A catch-up has completed on the first day over a channel holding one
\* player's result of that day; from then on the day advances and the
\* results of the current day arrive through add_result, with no further
\* catch-up (the daily update of catchup is never scheduled).
InitLive ==
    /\ game_date = DatesConfig
    /\ now = MinDay
    /\ user_dict \in { catchup_tail((1 :> UserWith(1, <<Res(date_to_num(DatesConfig, None, MinDay), sc)>>,
                                                  date_to_num(DatesConfig, None, MinDay))),
                                    date_to_num(DatesConfig, None, MinDay))
                        : sc \in CallScores }
    /\ pc = [h \in Handlers |-> Idle]
    /\ probe = <<>>

NextLive ==
    \/ \E p \in DOMAIN user_dict, score \in CallScores : call_add_result(p, today_num, score)
    \/ TickUnit

SpecLive == InitLive /\ [][NextLive]_vars

\* ------------------------------------------------------------ properties
NumsOf(results) == {results[i].number : i \in 1..Len(results)}
WinsOf(results) ==
    {results[i].number : i \in {j \in 1..Len(results) : results[j].score \in Nat}}

\* the last direct call, when there is one and it is a call of fn
Called(fn) == probe # <<>> /\ probe[1].fn = fn

\* length of the unbroken run of consecutive numbers of W that ends at a
RunEndingAt(W, a) ==
    CHOOSE k \in 0..(a + 1) : (\A j \in 0..(k - 1) : (a - j) \in W) /\ (a - k) \notin W

\* the run of wins anchored at today, or at today - 1 when today has no result
AnchoredRun(results, today) ==
    RunEndingAt(WinsOf(results),
                IF today \in NumsOf(results) THEN today ELSE today - 1)

\* length of the longest run of consecutive integers within W
LongestRun(W) ==
    CHOOSE k \in 0..Cardinality(W) :
        /\ k = 0 \/ \E a \in W : \A j \in 0..(k - 1) : (a + j) \in W
        /\ \A a \in W : \E j \in 0..k : (a + j) \notin W

\* C1: add_result with a result whose number is already in the timeline
\* leaves the timeline, total_games, last_played and cur_streak as they were.
C1_DuplicateIsNoOp ==
    [][\A p \in DOMAIN user_dict :
          (/\ probe' # <<>>
           /\ probe'[1].fn = "add_result"
           /\ probe'[1].uid = p
           /\ probe'[1].number \in NumsOf(user_dict[p].results))
          => /\ user_dict'[p].results = user_dict[p].results
             /\ user_dict'[p].total_games = user_dict[p].total_games
             /\ user_dict'[p].last_played = user_dict[p].last_played
             /\ user_dict'[p].cur_streak = user_dict[p].cur_streak]_vars

\* a result for today's number was offered again with a different score and
\* the stored one is still there
C1_Witness ==
    /\ Called("add_result")
    /\ probe[1].number = today_num
    /\ \E i \in 1..Len(user_dict[probe[1].uid].results) :
          /\ user_dict[probe[1].uid].results[i].number = probe[1].number
          /\ user_dict[probe[1].uid].results[i].score # probe[1].score

\* C2: add_result with a number greater than today's leaves the user as it
\* was, and no timeline ever holds a number greater than today's.
C2_FutureResultRejected ==
    /\ [](\A p \in DOMAIN user_dict : \A n \in NumsOf(user_dict[p].results) : n <= today_num)
    /\ [][\A p \in DOMAIN user_dict :
             (/\ probe' # <<>>
              /\ probe'[1].fn = "add_result"
              /\ probe'[1].uid = p
              /\ probe'[1].number > today_num)
             => /\ user_dict'[p].results = user_dict[p].results
                /\ user_dict'[p].total_games = user_dict[p].total_games
                /\ user_dict'[p].last_played = user_dict[p].last_played
                /\ user_dict'[p].cur_streak = user_dict[p].cur_streak]_vars

\* the last call offered tomorrow's number to a user who has played before
C2_Witness ==
    /\ Called("add_result")
    /\ probe[1].number = today_num + 1
    /\ user_dict[probe[1].uid].total_games > 0

\* C3: every timeline is strictly ascending by puzzle number, whatever the
\* interleaving of live ingestion and catch-up scans.
C3_TimelineSortedUnique ==
    \A p \in DOMAIN user_dict :
        \A i, j \in 1..Len(user_dict[p].results) :
            i < j => user_dict[p].results[i].number < user_dict[p].results[j].number

\* two catch-up scans are under way and a player holds two results
C3_Witness ==
    /\ \A h \in Handlers : pc[h] = Scan
    /\ \E p \in DOMAIN user_dict : Len(user_dict[p].results) >= 2

\* C4: the recomputation at the end of catchup sets cur_streak to the run of
\* consecutive wins ending at today, or at today - 1 when today has no result.
C4_RecomputeIsAnchoredRun ==
    Called("catchup_tail") =>
        \A p \in DOMAIN user_dict :
            user_dict[p].cur_streak = AnchoredRun(user_dict[p].results, probe[1].today)

\* C5: over a timeline of wins only, the recomputation yields 1 when today is
\* played and yesterday is missing, today - k when today is not played and
\* the wins run from k to today - 1, and never counts across a gap.
C5_AllWinsRecompute ==
    Called("catchup_tail") =>
        \A p \in DOMAIN user_dict :
            LET results == user_dict[p].results
                nums    == NumsOf(results)
                today   == probe[1].today
                streak  == user_dict[p].cur_streak
            IN  WinsOf(results) = nums =>
                  /\ (today \in nums /\ (today - 1) \notin nums) => streak = 1
                  /\ \A k \in 0..today :
                        (today \notin nums /\ (k - 1) \notin nums
                         /\ \A n \in k..(today - 1) : n \in nums) => streak = today - k
                  /\ streak = RunEndingAt(nums, IF today \in nums THEN today ELSE today - 1)

\* wins only, today played, yesterday missing, earlier wins: the streak is 1
C5_Witness ==
    /\ Called("catchup_tail")
    /\ LET results == user_dict[1].results
           today   == probe[1].today
       IN  /\ WinsOf(results) = NumsOf(results)
           /\ today \in NumsOf(results)
           /\ (today - 1) \notin NumsOf(results)
           /\ {today - 2, today - 3, today - 4} \subseteq NumsOf(results)
           /\ user_dict[1].cur_streak = 1

\* C6: an accepted result changes cur_streak only when its number is today's:
\* plus one for a numeric score, back to 0 for the failure score.
C6_StreakOnAccept ==
    [][\A p \in DOMAIN user_dict :
          (/\ probe' # <<>>
           /\ probe'[1].fn = "add_result"
           /\ probe'[1].uid = p
           /\ Len(user_dict'[p].results) = Len(user_dict[p].results) + 1)
          => user_dict'[p].cur_streak =
                IF probe'[1].number = today_num
                THEN (IF probe'[1].score \in Nat THEN user_dict[p].cur_streak + 1 ELSE 0)
                ELSE user_dict[p].cur_streak]_vars

\* a win for today was accepted on top of a streak, after an older result
\* had been accepted without touching it
C6_Witness ==
    /\ Called("add_result")
    /\ probe[1].number = today_num
    /\ probe[1].score \in Nat
    /\ user_dict[probe[1].uid].cur_streak = 2
    /\ Len(user_dict[probe[1].uid].results) >= 3

\* C7: _longest_all_time_streak returns the length of the longest run of
\* consecutive integers among the numbers whose result is a win.
C7_LongestStreakIsLongestRun ==
    Called("_longest_all_time_streak") =>
        LET results == user_dict[probe[1].uid].results
            wins == IF probe[1].is_win = "default"
                    THEN WinsOf(results)
                    ELSE {results[i].number :
                            i \in {j \in 1..Len(results) : results[j].score # X}}
        IN  probe[1].ret = LongestRun(wins)

\* a run of three wins, a gap and a run of two wins: the answer is 3
C7_Witness ==
    /\ Called("_longest_all_time_streak")
    /\ WinsOf(user_dict[probe[1].uid].results) = {0, 1, 2, 4, 5}
    /\ probe[1].ret = 3

\* C8: no stats snapshot and no calendar render is produced while a started
\* catch-up scan of another handler has not finished.
Produces(h) ==
    \/ pc[h] = Scan /\ pc'[h] # Scan
    \/ pc[h].at = "cal" /\ pc'[h].at = "cal"

C8_NoSnapshotDuringCatchup ==
    [][\A h \in Handlers :
          Produces(h) => \A other \in Handlers \ {h} : pc[other] # Scan]_vars

\* C9: date_to_num is monotonic non-decreasing in the date, is base_number at
\* or before epoch_date and base_number plus the days since epoch_date after it.
C9_DateToNumMonotoneClamped ==
    \A i, j \in 1..Len(probe) :
        (probe[i].fn = "date_to_num" /\ probe[j].fn = "date_to_num") =>
            /\ probe[i].number <= probe[j].number => probe[i].ret <= probe[j].ret
            /\ probe[i].ret >= game_date.base_number
            /\ probe[i].number <= game_date.epoch_date
                  => probe[i].ret = game_date.base_number
            /\ probe[i].number > game_date.epoch_date
                  => probe[i].ret = game_date.base_number
                                    + (probe[i].number - game_date.epoch_date)

\* one date before the epoch and one after it, under a non-zero base number
C9_Witness ==
    /\ Len(probe) = 2
    /\ probe[1].fn = "date_to_num"
    /\ probe[1].number < game_date.epoch_date
    /\ probe[2].number > game_date.epoch_date + 1
    /\ game_date.base_number > 0

\* C10: total_games is the timeline's length, played_nums holds exactly its
\* numbers, and last_played is None for an empty timeline, else its maximum.
C10_CountersMatchTimeline ==
    \A p \in DOMAIN user_dict :
        LET u    == user_dict[p]
            nums == NumsOf(u.results)
        IN  /\ u.total_games = Len(u.results)
            /\ BagToSet(u.played_nums) = nums
            /\ \A n \in nums : CopiesIn(n, u.played_nums) = 1
            /\ BagCardinality(u.played_nums) = Len(u.results)
            /\ u.results = <<>> => u.last_played = None
            /\ u.results # <<>> =>
                  u.last_played \in nums /\ \A n \in nums : n <= u.last_played

\* a player whose oldest result is number 0 and who holds a later one
C10_Witness ==
    \E p \in DOMAIN user_dict :
        /\ NumsOf(user_dict[p].results) = {0, 1}
        /\ user_dict[p].last_played = 1

\* C11: the count parse_result returns equals the number of results the
\* call newly added to the players' timelines.
C11_ReturnCountsNewResults ==
    Called("parse_result") => probe[1].ret = probe[1].added

\* an item the loop body of parse_result processes without an exception
ItemRuns(item) == RequiredKeys \subseteq item.keys /\ item.number # None

\* C12: a failing item or an unresolvable handle is skipped and every
\* other item of the message is still ingested; parse_result raises
\* nothing, and returns 0 with the roster untouched when the plugin raised.
C12_ItemFailuresAreSkipped ==
    Called("parse_result") =>
        LET c     == probe[1]
            items == c.outcome.items
        IN  /\ c.exc = ""
            /\ c.outcome.raised => c.ret = 0 /\ c.added = 0
            /\ c.ret = Cardinality({i \in 1..Len(items) : ItemRuns(items[i])})
            /\ \A i \in 1..Len(items) :
                    ItemRuns(items[i]) /\ items[i].number <= c.today =>
                        /\ items[i].member_id \in DOMAIN user_dict
                        /\ items[i].number \in NumsOf(user_dict[items[i].member_id].results)
            /\ c.game = "wordle" =>
                    \A l \in 1..Len(c.msg.content) :
                        \A t \in 1..Len(c.msg.content[l].handles) :
                            LET tok == c.msg.content[l].handles[t]
                            IN  tok.kind = "mention" =>
                                    /\ tok.id \in DOMAIN user_dict
                                    /\ user_dict[tok.id].results # <<>>

\* a failing item followed by a good one: the good one is stored and counted;
\* and a plugin that raised
C12_Witness ==
    /\ Called("parse_result")
    /\ Len(probe[1].outcome.items) = 2
    /\ ~ItemRuns(probe[1].outcome.items[1])
    /\ probe[1].outcome.items[2].number
            \in NumsOf(user_dict[probe[1].outcome.items[2].member_id].results)
    /\ probe[1].ret = 1
    /\ probe[1].added = 1

\* the ids of the members of which some name field satisfies Match
MatchingIds(guild, Match(_)) ==
    {guild.members[i].id : i \in {j \in 1..Len(guild.members) :
        \E u \in {guild.members[j].name, guild.members[j].display_name,
                   guild.members[j].global_name} : u # <<>> /\ Match(u)}}

\* C13: a mention resolves to its embedded id whatever the directory; a
\* name handle resolves to a member matching it case-insensitively, else
\* to a member matching it after both sides are reduced to alphanumerics,
\* else to the only member it is a case-insensitive prefix of, else to none.
C13_ThreeTierResolution ==
    Called("_resolve_member_from_token") =>
        LET c == probe[1]
            h == c.token.name
            Exact  == MatchingIds(c.guild, LAMBDA u : casefold(u) = casefold(h))
            Alnum  == MatchingIds(c.guild, LAMBDA u : normalize(u) = normalize(h))
            Prefix == MatchingIds(c.guild, LAMBDA u : startswith(casefold(u), casefold(h)))
        IN  IF c.token.kind = "mention" THEN c.ret = {c.token.id}
            ELSE IF ~c.guild.present THEN c.ret = {}
            ELSE IF Exact # {} THEN c.ret # {} /\ c.ret \subseteq Exact
            ELSE IF Alnum # {} THEN c.ret # {} /\ c.ret \subseteq Alnum
            ELSE IF Cardinality(Prefix) = 1 THEN c.ret = Prefix
            ELSE c.ret = {}

\* a handle that names one member exactly and is a prefix of another's name
C13_Witness ==
    /\ Called("_resolve_member_from_token")
    /\ probe[1].token = Handle(<<"A", "L">>)
    /\ Len(probe[1].guild.members) = 3
    /\ probe[1].guild.members[1].name = <<"A", "l", "b">>
    /\ probe[1].guild.members[2].name = <<"a", "b">>
    /\ probe[1].guild.members[3].name = <<"a", "l">>
    /\ probe[1].ret = {3}

\* the handle tokens of a message with their lines: lines in order, tokens
\* in order
RECURSIVE TokensInOrder(_)
TokensInOrder(lines) ==
    IF lines = <<>> THEN <<>>
    ELSE [t \in 1..Len(Head(lines).handles) |->
                [line |-> Head(lines), tok |-> Head(lines).handles[t]]]
         \o TokensInOrder(Tail(lines))

ResolvedTokens(msg) ==
    SelectSeq(TokensInOrder(msg.content),
              LAMBDA e : _resolve_member_from_token(msg, e.tok) # {})

\* items holds one candidate per resolving token, in order, with the score
\* and total of the token's line and the given puzzle number
OnePerResolvedToken(msg, items, number) ==
    LET R == ResolvedTokens(msg)
    IN  /\ Len(items) = Len(R)
        /\ \A i \in 1..Len(R) :
                /\ items[i].member_id \in _resolve_member_from_token(msg, R[i].tok)
                /\ items[i].score = (IF R[i].line.tries = "X" THEN X ELSE IntOf[R[i].line.tries])
                /\ items[i].meta.total = R[i].line.total
                /\ items[i].number = number

\* C14 (as stated): parse_message yields one candidate per resolving handle
\* token, in order, each with its line's score and total and the puzzle
\* number of the message's creation date.
C14_NumberOfCreationDate ==
    Called("parse_result") /\ probe[1].game = "wordle" =>
        OnePerResolvedToken(probe[1].msg, probe[1].outcome.items,
                            date_to_num(game_date, probe[1].msg.created_at, now))

\* C14 (amended): ... and the puzzle number of the message's creation date,
\* or today's number when the creation date's number is greater.
C14_NumberCappedAtToday ==
    Called("parse_result") /\ probe[1].game = "wordle" =>
        LET num == date_to_num(game_date, probe[1].msg.created_at, now)
        IN  OnePerResolvedToken(probe[1].msg, probe[1].outcome.items,
                                IF num > probe[1].today THEN probe[1].today ELSE num)

\* a line with two resolving tokens in a message created after today
C14_Witness ==
    /\ Called("parse_result")
    /\ probe[1].game = "wordle"
    /\ probe[1].msg.created_at > now
    /\ Len(probe[1].msg.content) = 1
    /\ Len(ResolvedTokens(probe[1].msg)) = 2
    /\ Len(probe[1].outcome.items) = 2
    /\ probe[1].outcome.items[1].number = probe[1].today

\* member_id has no entry in the directory of msg's guild, or msg has no guild
Absent(msg, member_id) == ~msg.guild.present \/ get_member(msg.guild, member_id) = {}

\* after the call pr on roster ud: every item for an absent id left a User
\* holding the item's result, a placeholder named by the id if the call
\* created it
PlaceholderStored(ud, pr) ==
    \A i \in 1..Len(pr.outcome.items) :
        LET item == pr.outcome.items[i]
        IN  Absent(pr.msg, item.member_id) =>
                /\ item.member_id \in DOMAIN ud
                /\ item.number \in NumsOf(ud[item.member_id].results)
                /\ item.member_id \notin pr.known =>
                        /\ ud[item.member_id].author.stub
                        /\ ud[item.member_id].author.id = item.member_id
                        /\ ud[item.member_id].author.name = str(item.member_id)
                        /\ ud[item.member_id].author.display_name = str(item.member_id)

\* C15: a result for an id absent from the directory (or of a message with
\* no guild) is stored under a placeholder named by the id's string form,
\* and every later call keeps the record: same author, earlier results kept.
C15_PlaceholderForAbsentMember ==
    [][ /\ \A p \in DOMAIN user_dict :
                /\ p \in DOMAIN user_dict'
                /\ user_dict'[p].author = user_dict[p].author
                /\ NumsOf(user_dict[p].results) \subseteq NumsOf(user_dict'[p].results)
        /\ probe' # <<>> => PlaceholderStored(user_dict', probe'[1]) ]_vars

\* a second result stored under the placeholder of an absent id
C15_Witness ==
    /\ Called("parse_result")
    /\ 2 \in probe[1].known
    /\ Absent(probe[1].msg, 2)
    /\ probe[1].added = 1
    /\ Len(user_dict[2].results) = 2
    /\ user_dict[2].author.stub
    /\ user_dict[2].author.name = <<"2">>

\* C16: every stored result's score is 'X' or a positive integer no greater
\* than the total in its metadata.
C16_StoredScoreWithinTotal ==
    \A p \in DOMAIN user_dict :
        \A i \in 1..Len(user_dict[p].results) :
            LET r == user_dict[p].results[i]
            IN  r.score = X \/ (r.score >= 1 /\ r.score <= r.meta.total)

\* games played and best streak of a roster's player, from the timeline
GamesOf(p) == Len(user_dict[p].results)
BestStreakOf(p) ==
    LongestRun({user_dict[p].results[i].number :
                    i \in {j \in 1..Len(user_dict[p].results) : user_dict[p].results[j].score # X}})

\* p ranks at least as high as q: more games, or as many and no shorter streak
RanksAtLeast(p, q) ==
    GamesOf(p) > GamesOf(q) \/ (GamesOf(p) = GamesOf(q) /\ BestStreakOf(p) >= BestStreakOf(q))

\* the sum of f[p] over the ids
RECURSIVE SumOver(_, _)
SumOver(ids, f) ==
    IF ids = {} THEN 0
    ELSE LET p == CHOOSE p \in ids : TRUE IN f[p] + SumOver(ids \ {p}, f)

\* C17: the leaderboard lists min(10, players) distinct players with their
\* games and best streak, by descending games and then descending best
\* streak, no unlisted player ranking above a listed one; the totals are
\* sums over every player of the roster.
C17_LeaderboardTopTenAndTotals ==
    Called("build_stats_embed") =>
        LET L      == probe[1].ret.leaderboard
            totals == probe[1].ret.totals
            all    == DOMAIN user_dict
            listed == {L[i].user_id : i \in 1..Len(L)}
        IN  /\ Len(L) <= 10
            /\ Len(L) = (IF Cardinality(all) < 10 THEN Cardinality(all) ELSE 10)
            /\ listed \subseteq all
            /\ Cardinality(listed) = Len(L)
            /\ \A i \in 1..Len(L) : /\ L[i].games = GamesOf(L[i].user_id)
                                     /\ L[i].streak = BestStreakOf(L[i].user_id)
            /\ \A i, j \in 1..Len(L) : i < j => RanksAtLeast(L[i].user_id, L[j].user_id)
            /\ \A p \in listed, q \in all \ listed : RanksAtLeast(p, q)
            /\ totals.games = SumOver(all, [p \in all |-> GamesOf(p)])
            /\ totals.ones = SumOver(all, [p \in all |-> count_score(user_dict[p].results, 1)])
            /\ totals.x = SumOver(all, [p \in all |-> count_score(user_dict[p].results, X)])

\* eleven players, ten listed, the unlisted one with a game in one try and
\* a tie in games broken by the streak among the listed
C17_Witness ==
    /\ Called("build_stats_embed")
    /\ Cardinality(DOMAIN user_dict) = 11
    /\ Len(probe[1].ret.leaderboard) = 10
    /\ \E i \in 1..9 :
            /\ probe[1].ret.leaderboard[i].games = probe[1].ret.leaderboard[i + 1].games
            /\ probe[1].ret.leaderboard[i].streak > probe[1].ret.leaderboard[i + 1].streak
            /\ probe[1].ret.leaderboard[i].user_id > probe[1].ret.leaderboard[i + 1].user_id
    /\ \E q \in DOMAIN user_dict :
            /\ \A i \in 1..10 : probe[1].ret.leaderboard[i].user_id # q
            /\ count_score(user_dict[q].results, 1) = 1
    /\ probe[1].ret.totals.ones > 0

\* the puzzle number of calendar date d: base_number at the epoch date and
\* before, one more for each day after it
NumberOfDate(cfg, d) == cfg.base_number + (IF d > cfg.epoch_date THEN d - cfg.epoch_date ELSE 0)

\* the cell shows the token of score: its digits or X, then padding
ShowsToken(cell, score) ==
    LET tok == IF score = X THEN <<"X">> ELSE str(score)
    IN  /\ Len(cell) >= Len(tok)
        /\ SubSeq(cell, 1, Len(tok)) = tok
        /\ \A i \in (Len(tok) + 1)..Len(cell) : cell[i] = " "

\* the cell rule for the call c and the cell of date d in the block of (y, m)
CellRule(c, cell, d, y, m) ==
    LET results == user_dict[c.uid].results
        end     == toordinal(c.end_dt.year, c.end_dt.month, c.end_dt.day)
        in_month == toordinal(y, m, 1) <= d /\ d <= toordinal(y, m, days_in_month(y, m))
        played  == {i \in 1..Len(results) : results[i].number = NumberOfDate(game_date, d)}
    IN  IF ~in_month \/ d > end THEN cell = <<" ", " ">>
        ELSE IF played = {} THEN cell = <<"·", " ">>
        ELSE \E i \in played : ShowsToken(cell, results[i].score)

\* C18: a cell is blank for a date outside its month or after the end
\* date; otherwise it shows the missed marker exactly when the player has
\* no result for that date's puzzle number, and that result's score token
\* when the player has one.
C18_CellRule ==
    Called("send_last_n_month_calendars") =>
        LET c == probe[1]
        IN  \A wi \in 1..Len(c.ret.cells) : \A mi \in 1..Len(c.ret.months) :
                LET y == c.ret.months[mi][1]
                    m == c.ret.months[mi][2]
                    weeks == monthdatescalendar(y, m)
                IN  wi <= Len(weeks) =>
                        \A k \in 1..7 : CellRule(c, c.ret.cells[wi][mi][k], weeks[wi][k], y, m)

\* the Monday-first week rows month (y, m) spans
WeekRows(y, m) ==
    LET lead == weekday(toordinal(y, m, 1))
    IN  (lead + days_in_month(y, m) + 6) \div 7

\* the month after (y, m)
NextMonth(ym) == IF ym[2] = 12 THEN <<ym[1] + 1, 1>> ELSE <<ym[1], ym[2] + 1>>

\* C19: the months are the clamped count of consecutive months ending at
\* the end instant's month, oldest first; the grid has as many lines, after
\* the two header lines, as the longest month has week rows; a month with
\* fewer rows contributes an all-blank block; every grid line is as wide as
\* the weekday header line, with 7 cells per month block.
C19_GridLayout ==
    Called("send_last_n_month_calendars") =>
        LET c      == probe[1]
            n      == IF c.n_months < 1 THEN 1 ELSE IF c.n_months > 12 THEN 12 ELSE c.n_months
            months == c.ret.months
            lines  == c.ret.lines
            rows   == [mi \in 1..n |-> WeekRows(months[mi][1], months[mi][2])]
            most   == CHOOSE r \in {rows[mi] : mi \in 1..n} : \A mi \in 1..n : rows[mi] <= r
        IN  /\ Len(months) = n
            /\ months[n] = <<c.end_dt.year, c.end_dt.month>>
            /\ \A mi \in 1..(n - 1) : months[mi + 1] = NextMonth(months[mi])
            /\ Len(lines) = 2 + most
            /\ Len(lines[2]) = 20 * n + 2 * (n - 1)
            /\ \A wi \in 1..most :
                /\ Len(lines[2 + wi]) = Len(lines[2])
                /\ \A mi \in 1..n :
                    IF wi > rows[mi]
                    THEN \A k \in 1..20 : lines[2 + wi][22 * (mi - 1) + k] = " "
                    ELSE Len(c.ret.cells[wi][mi]) = 7

\* C20: every player present in user_dict has a non-empty timeline.
C20_NoPlayerWithoutResult ==
    \A p \in DOMAIN user_dict : user_dict[p].results # <<>>

\* C21: after a completed catch-up, whatever days pass and whichever of
\* their results are ingested live, every player's cur_streak is the run of
\* consecutive wins ending at today, or at yesterday while today is not played.
C21_LiveStreakIsAnchoredRun ==
    \A p \in DOMAIN user_dict :
        user_dict[p].cur_streak = AnchoredRun(user_dict[p].results, today_num)

\* C22: when the catch-up recomputation has just set cur_streak and today
\* is not yet played, ingesting today's result through add_result leaves
\* the cur_streak a full recomputation over the new timeline would produce.
C22_IncrementalAgreesWithRecompute ==
    [][\A p \in DOMAIN user_dict :
          (/\ Called("catchup_tail")
           /\ probe[1].today = today_num
           /\ today_num \notin NumsOf(user_dict[p].results)
           /\ probe' # <<>>
           /\ probe'[1].fn = "add_result"
           /\ probe'[1].uid = p
           /\ probe'[1].number = today_num)
          => user_dict'[p].cur_streak = recompute_streak(user_dict'[p], today_num)]_vars
====
